---- MODULE Spec2Model ----
(***************************************************************************)
(* ChatDB: the conversational-memory store of the "Data storage" notebook, *)
(* a thin wrapper over a persistent chromadb collection.                   *)
(*                                                                         *)
(* The vector backend (chromadb) and the embedding provider (OpenAI) are   *)
(* external; they are modelled by what the calls the notebook makes do:    *)
(*   create_collection  fails when a collection of that name exists        *)
(*   delete_collection  deletes by name, fails when no such collection     *)
(*   Collection.add     ignores a record whose id is already stored        *)
(*   Collection.get     returns all records in insertion order             *)
(*   Collection.query   exact k nearest, k = min(n_results, count)         *)
(* A Collection handle names one created collection (by its uuid, not by   *)
(* its name); once that collection is deleted every call through the       *)
(* handle fails, also when a new collection of the same name is created.   *)
(* The model keeps, per handle, whether its collection still exists.       *)
(*                                                                         *)
(* The module also holds the chat loop built on ChatDB (get_context,       *)
(* chat_with_db), the tool-calling exchange of the OpenAI notebook and the *)
(* deploy job of the documentation workflow, each with a specification of  *)
(* its own over the same variables.                                        *)
(***************************************************************************)
EXTENDS Integers, Sequences, FiniteSets, TLC

-----------------------------------------------------------------------------
(* Bounds of the model *)

\* the largest value the id counter of a store object is driven to
MaxAdds == 2

\* the largest n_results a caller asks for
MaxN == 3

\* the caller's variables that may hold a ChatDB object
Stores == {"s1", "s2"}

\* collection names handed to the constructor
Names == {"chat_db"}

\* embedding model identifiers handed to the constructor
Models == {"text-embedding-3-small"}

\* the (user_message, ai_message) pairs handed to add_conversation_to_db
Turns == {<<"Food", "What budget?">>, <<"", "What budget?">>, <<"Food", "">>}

\* the three turns the notebook adds, in the order it adds them: the greeting,
\* the restaurant and the Italian-food turn
NotebookTurns ==
    << <<"Hello, my name is Alice, how are you?",
         "Nice to meet you Alice, I am Bob. I am fine, thank you for asking. How can I help you today?">>,
       <<"I am looking for a restaurant in the area.",
         "Great! What type of cuisine are you in the mood for?">>,
       <<"I am looking for some Italian food.",
         "There are many good Italian restaurants in the area. What is your budget?">> >>

\* the user inputs handed to get_context and chat_with_db
ChatInputs ==
    {"What is my name?", "I am looking for some new foods to try. Can you help me?"}

\* the contents the completion service answers with
Responses == {"Alice."}

\* the largest value chat_with_db drives the id counter of a store object to
MaxChats == 3

-----------------------------------------------------------------------------
(* Values *)

NoColl == [absent |-> TRUE]
NoObj == [unbound |-> TRUE]

OK == "ok"
ConnectionFailure == "ConnectionFailure"
NotFound == "NotFound"
AlreadyExists == "AlreadyExists"

VARIABLES
    db,         \* the persistent client's collections: name -> collection or NoColl
    obj,        \* the ChatDB objects: variable -> object or NoObj
    last,       \* the outcome of the last call: what the caller got back
    added,      \* per object: the turns its successful adds stored since it was (re)built
    destroyed,  \* per object: clear_db(reinitialize=False) succeeded and no rebuild since
    pc,         \* per caller thread: its position inside add_conversation_to_db
    loc,        \* per caller thread: the values it has evaluated so far
    overlapped, \* some add_conversation_to_db call began while another was running
    calls,      \* the library calls the last call made, in order, with their outcomes
    exchange,   \* the tool-calling notebook: the cell reached and the names it has bound
    deploy      \* the deploy workflow: the step reached, the built site, the clone
                \* temp_docs and the branch of the documentation repository

vars == <<db, obj, last, added, destroyed, pc, loc, overlapped, calls, exchange, deploy>>

\* the state of the repository's other programs, which no ChatDB call touches
apart == <<exchange, deploy>>

\* the state the ChatDB notebook works on
store == <<db, obj, last, added, destroyed, pc, loc, overlapped, calls>>

\* the state of the caller threads, used only when calls run concurrently
thr == <<pc, loc, overlapped>>

\* the threads that call add_conversation_to_db concurrently
Threads == {"t1", "t2"}

\* the turns the concurrent callers submit
ThreadTurns == {<<"Food", "What budget?">>, <<"Food", "">>}

NoLoc == [idle |-> TRUE]

-----------------------------------------------------------------------------
(* Pure helpers *)

Digit == <<"0", "1", "2", "3", "4", "5", "6", "7", "8", "9">>

RECURSIVE IntToStr(_)
\* str(n) for n >= 0
IntToStr(n) ==
    IF n < 10 THEN Digit[n + 1]
    ELSE IntToStr(n \div 10) \o Digit[(n % 10) + 1]

\* the two messages joined without the line break
DocumentOnOneLine(user_message, ai_message) ==
    "User: " \o user_message \o " AI: " \o ai_message

\* f"User: {user_message}\nAI: {ai_message}"
DocumentOf(user_message, ai_message) ==
    "User: " \o user_message \o "\nAI: " \o ai_message

\* {"user_message": user_message, "ai_message": ai_message}
MetadataOf(user_message, ai_message) ==
    [user_message |-> user_message, ai_message |-> ai_message]

\* the record add_conversation_to_db submits when the counter reads c
RecordOf(c, user_message, ai_message) ==
    [id |-> IntToStr(c),
     document |-> DocumentOf(user_message, ai_message),
     metadata |-> MetadataOf(user_message, ai_message)]

\* the counter is left as it is
NextCounterStuck(c) == c

\* self.id_counter += 1
NextCounter(c) == c + 1

Min(a, b) == IF a <= b THEN a ELSE b

IdsOf(recs) == {recs[k].id : k \in 1 .. Len(recs)}

-----------------------------------------------------------------------------
(* The backend *)

\* Collection.add of one record: a record whose id is already stored is ignored
CollectionAdd(recs, rec) ==
    IF rec.id \in IdsOf(recs) THEN recs ELSE Append(recs, rec)

\* the handle self.chat_db of object o names a collection that still exists
HandleValid(dbv, o) ==
    /\ o.attached
    /\ dbv[o.name] # NoColl

\* the store object held by s is live
Live(s) == obj[s] # NoObj /\ HandleValid(db, obj[s])

-----------------------------------------------------------------------------
(* ChatDB.__init__ *)

\* __init__ that keeps the counter of the object it rebuilds
InitObjectKeepsCounter(dbv, o, name, model_name, fail) ==
    IF fail THEN [err |-> ConnectionFailure, db |-> dbv, obj |-> o]
    ELSE IF dbv[name] # NoColl THEN [err |-> AlreadyExists, db |-> dbv, obj |-> o]
    ELSE [err |-> OK,
          db  |-> [dbv EXCEPT ![name] = [recs |-> <<>>]],
          obj |-> [name |-> name, model_name |-> model_name, attached |-> TRUE,
                   id_counter |-> IF o = NoObj THEN 0 ELSE o.id_counter]]

\* __init__ that sets the counter to zero before it creates the collection
InitObjectResetsCounterFirst(dbv, o, name, model_name, fail) ==
    LET reset == IF o = NoObj THEN o ELSE [o EXCEPT !.id_counter = 0] IN
    IF fail THEN [err |-> ConnectionFailure, db |-> dbv, obj |-> reset]
    ELSE IF dbv[name] # NoColl THEN [err |-> AlreadyExists, db |-> dbv, obj |-> reset]
    ELSE [err |-> OK,
          db  |-> [dbv EXCEPT ![name] = [recs |-> <<>>]],
          obj |-> [name |-> name, model_name |-> model_name,
                   attached |-> TRUE, id_counter |-> 0]]

\* the effect of __init__(name, model_name) on object o (NoObj for a new object):
\* the error it raises, the collections and the object afterwards
InitObject(dbv, o, name, model_name, fail) ==
    IF fail THEN [err |-> ConnectionFailure, db |-> dbv, obj |-> o]
    ELSE IF dbv[name] # NoColl THEN [err |-> AlreadyExists, db |-> dbv, obj |-> o]
    ELSE [err |-> OK,
          db  |-> [dbv EXCEPT ![name] = [recs |-> <<>>]],
          obj |-> [name |-> name, model_name |-> model_name,
                   attached |-> TRUE, id_counter |-> 0]]

\* what the caller observes of a call: the operation, the error raised ("ok" for
\* none) and one detail: reinitialize for clear_db, the number of entries
\* returned for get_all_entries and query_db
Outcome(op, err, arg) == [op |-> op, err |-> err, arg |-> arg]

\* one call into chromadb made by a ChatDB method, and the error it raised
Call(name, err) == [call |-> name, err |-> err]

\* s = ChatDB(name, model_name)
Construct(s, name, model_name, fail) ==
    /\ obj[s] = NoObj
    /\ LET r == InitObject(db, NoObj, name, model_name, fail) IN
       /\ db' = r.db
       /\ obj' = [obj EXCEPT ![s] = r.obj]
       /\ last' = Outcome("construct", r.err, FALSE)
       /\ calls' = <<Call("create_collection", r.err)>>
       /\ added' = [added EXCEPT ![s] = <<>>]
       /\ UNCHANGED <<destroyed, thr, apart>>

-----------------------------------------------------------------------------
(* ChatDB.add_conversation_to_db *)

\* add_conversation_to_db that advances the counter before it writes
add_counter_first(dbv, o, user_message, ai_message, fail) ==
    LET bumped == [o EXCEPT !.id_counter = NextCounter(@)] IN
    IF fail THEN [err |-> ConnectionFailure, db |-> dbv, obj |-> bumped]
    ELSE IF ~HandleValid(dbv, o) THEN [err |-> NotFound, db |-> dbv, obj |-> bumped]
    ELSE [err |-> OK,
          db  |-> [dbv EXCEPT ![o.name].recs =
                      CollectionAdd(@, RecordOf(o.id_counter, user_message, ai_message))],
          obj |-> bumped]

\* the store after add_conversation_to_db(user_message, ai_message) on object o:
\* the error raised, the collections and the object afterwards
add_conversation_to_db(dbv, o, user_message, ai_message, fail) ==
    IF fail THEN [err |-> ConnectionFailure, db |-> dbv, obj |-> o]
    ELSE IF ~HandleValid(dbv, o) THEN [err |-> NotFound, db |-> dbv, obj |-> o]
    ELSE [err |-> OK,
          db  |-> [dbv EXCEPT ![o.name].recs =
                      CollectionAdd(@, RecordOf(o.id_counter, user_message, ai_message))],
          obj |-> [o EXCEPT !.id_counter = NextCounter(@)]]

\* s.add_conversation_to_db(user_message, ai_message), taken while the counter
\* of the object is below limit
AddUpTo(limit, s, user_message, ai_message, fail) ==
    /\ obj[s] # NoObj
    /\ obj[s].id_counter < limit
    /\ LET r == add_conversation_to_db(db, obj[s], user_message, ai_message, fail) IN
       /\ db' = r.db
       /\ obj' = [obj EXCEPT ![s] = r.obj]
       /\ last' = Outcome("add", r.err, FALSE)
       /\ calls' = <<Call("add", r.err)>>
       /\ added' = [added EXCEPT ![s] =
                       IF r.err = OK
                       THEN Append(@, MetadataOf(user_message, ai_message))
                       ELSE @]
       /\ UNCHANGED <<destroyed, thr, apart>>

Add(s, user_message, ai_message, fail) ==
    AddUpTo(MaxAdds, s, user_message, ai_message, fail)

-----------------------------------------------------------------------------
(* ChatDB.get_all_entries *)

get_all_entries(dbv, o, fail) ==
    IF fail THEN [err |-> ConnectionFailure, out |-> <<>>]
    ELSE IF ~HandleValid(dbv, o) THEN [err |-> NotFound, out |-> <<>>]
    ELSE [err |-> OK, out |-> dbv[o.name].recs]

GetAll(s, fail) ==
    /\ obj[s] # NoObj
    /\ LET r == get_all_entries(db, obj[s], fail) IN
       /\ last' = Outcome("get_all", r.err, Len(r.out))
       /\ calls' = <<Call("get", r.err)>>
    /\ UNCHANGED <<db, obj, added, destroyed, thr, apart>>

-----------------------------------------------------------------------------
(* ChatDB.clear_db *)

\* a handle after the collection called name was deleted
Detach(o, name) ==
    IF o # NoObj /\ o.name = name THEN [o EXCEPT !.attached = FALSE] ELSE o

\* client.delete_collection(name): deletes whatever collection has that name;
\* every handle of that collection dangles from then on
DeleteCollection(dbv, objv, name, fail) ==
    IF fail THEN [err |-> ConnectionFailure, db |-> dbv, obj |-> objv]
    ELSE IF dbv[name] = NoColl THEN [err |-> NotFound, db |-> dbv, obj |-> objv]
    ELSE [err |-> OK,
          db  |-> [dbv EXCEPT ![name] = NoColl],
          obj |-> [x \in Stores |-> Detach(objv[x], name)]]

\* clear_db that removes only the newest turn of a collection holding several
clear_db_drops_newest(dbv, objv, s, reinitialize, failAt) ==
    LET n == objv[s].name IN
    IF failAt # "none" \/ dbv[n] = NoColl \/ ~reinitialize
    THEN [err |-> NotFound, db |-> dbv, obj |-> objv, deleted |-> FALSE]
    ELSE [err |-> OK,
          db  |-> [dbv EXCEPT ![n].recs = SubSeq(@, 1, Len(@) - 1)],
          obj |-> objv, deleted |-> FALSE]

\* clear_db that goes on when there is no collection to delete
clear_db_ignores_missing(dbv, objv, s, reinitialize, failAt) ==
    LET d == DeleteCollection(dbv, objv, objv[s].name, failAt = "delete") IN
    IF d.err = ConnectionFailure
    THEN [err |-> d.err, db |-> dbv, obj |-> objv, deleted |-> FALSE]
    ELSE IF ~reinitialize THEN [err |-> OK, db |-> d.db, obj |-> d.obj, deleted |-> TRUE]
    ELSE LET r == InitObject(d.db, d.obj[s], objv[s].name, objv[s].model_name,
                             failAt = "create") IN
         [err |-> r.err, db |-> r.db, obj |-> [d.obj EXCEPT ![s] = r.obj],
          deleted |-> TRUE]

\* clear_db(reinitialize) on the object held by s; failAt names the backend call
\* that is unreachable: "delete", "create" or "none"
clear_db(dbv, objv, s, reinitialize, failAt) ==
    LET d == DeleteCollection(dbv, objv, objv[s].name, failAt = "delete") IN
    IF d.err # OK THEN [err |-> d.err, db |-> dbv, obj |-> objv, deleted |-> FALSE]
    ELSE IF ~reinitialize THEN [err |-> OK, db |-> d.db, obj |-> d.obj, deleted |-> TRUE]
    ELSE LET r == InitObject(d.db, d.obj[s], objv[s].name, objv[s].model_name,
                             failAt = "create") IN
         [err |-> r.err, db |-> r.db, obj |-> [d.obj EXCEPT ![s] = r.obj],
          deleted |-> TRUE]

\* clear_db that tries delete_collection a second time when it failed
clear_db_calls_retry(dbv, objv, s, reinitialize, failAt) ==
    LET d == DeleteCollection(dbv, objv, objv[s].name, failAt = "delete") IN
    IF d.err # OK
    THEN <<Call("delete_collection", d.err), Call("delete_collection", d.err)>>
    ELSE IF ~reinitialize THEN <<Call("delete_collection", OK)>>
    ELSE <<Call("delete_collection", OK),
           Call("create_collection",
                InitObject(d.db, d.obj[s], objv[s].name, objv[s].model_name,
                           failAt = "create").err)>>

\* the library calls clear_db(reinitialize) makes: delete_collection and, when
\* that returned and reinitialize is set, the create_collection of __init__
clear_db_calls(dbv, objv, s, reinitialize, failAt) ==
    LET d == DeleteCollection(dbv, objv, objv[s].name, failAt = "delete") IN
    IF d.err # OK THEN <<Call("delete_collection", d.err)>>
    ELSE IF ~reinitialize THEN <<Call("delete_collection", OK)>>
    ELSE <<Call("delete_collection", OK),
           Call("create_collection",
                InitObject(d.db, d.obj[s], objv[s].name, objv[s].model_name,
                           failAt = "create").err)>>

Clear(s, reinitialize, failAt) ==
    /\ obj[s] # NoObj
    /\ LET r == clear_db(db, obj, s, reinitialize, failAt) IN
       /\ db' = r.db
       /\ obj' = r.obj
       /\ last' = Outcome("clear", r.err, reinitialize)
       /\ calls' = clear_db_calls(db, obj, s, reinitialize, failAt)
       /\ added' = [x \in Stores |->
                       IF r.deleted /\ obj[x] # NoObj /\ obj[x].name = obj[s].name
                       THEN <<>> ELSE added[x]]
       /\ destroyed' = [destroyed EXCEPT ![s] =
                           IF r.deleted THEN (~reinitialize) ELSE @]
       /\ UNCHANGED <<thr, apart>>

-----------------------------------------------------------------------------
(* The embedding provider: a deterministic stub.  Every vector has the same *)
(* length, so the cosine distance 1 - (a.b)/(|a||b|) is, scaled by |a||b|,  *)
(* the integer (a.a) - (a.b).                                               *)

\* the texts a caller queries with: a topic, and the exact text of a document
QueryTexts == {"Food", DocumentOf("Food", "")}

\* every text that is ever embedded
KnownTexts ==
    QueryTexts
        \cup {DocumentOf(t[1], t[2]) : t \in Turns}
        \cup {DocumentOf(NotebookTurns[k][1], NotebookTurns[k][2]) :
                 k \in 1 .. Len(NotebookTurns)}
        \cup ChatInputs
        \cup {DocumentOf(u, r) : u \in ChatInputs, r \in Responses}

EmbedTable ==
    [text \in KnownTexts |->
        CASE text = "Food"                             -> <<5, 0>>
          [] text = DocumentOf("Food", "What budget?") -> <<4, 3>>
          [] text = DocumentOf("Food", "")             -> <<3, 4>>
          [] text = DocumentOf("", "What budget?")     -> <<-3, 4>>
          \* the notebook's turns, in the order of their recorded distances to
          \* "Food": restaurant 0.727, Italian food 0.757, greeting 0.873
          [] text = DocumentOf(NotebookTurns[2][1], NotebookTurns[2][2]) -> <<4, 3>>
          [] text = DocumentOf(NotebookTurns[3][1], NotebookTurns[3][2]) -> <<3, 4>>
          [] text = DocumentOf(NotebookTurns[1][1], NotebookTurns[1][2]) -> <<0, 5>>
          \* the chat inputs and the turns chat_with_db stores
          [] text = "What is my name?"                              -> <<0, -5>>
          [] text = DocumentOf("What is my name?", "Alice.")        -> <<3, -4>>
          [] text = "I am looking for some new foods to try. Can you help me?"
                -> <<-5, 0>>
          [] text = DocumentOf("I am looking for some new foods to try. Can you help me?",
                               "Alice.")
                -> <<-4, -3>>
          [] OTHER                                     -> <<0, 5>>]

\* embedding_function(text)
Embed(text) == EmbedTable[text]

Dot(a, b) == a[1] * b[1] + a[2] * b[2]

\* the similarity of two embeddings handed out as their distance
CosineSimilarity(a, b) == Dot(a, b)

\* cosine distance of two embeddings (scaled): 0 = same direction
CosineDistance(a, b) == Dot(a, a) - Dot(a, b)

-----------------------------------------------------------------------------
(* ChatDB.query_db *)

\* one entry of a query result
Hit(qv, rec) ==
    [id |-> rec.id, document |-> rec.document, metadata |-> rec.metadata,
     distance |-> CosineDistance(qv, Embed(rec.document))]

\* hit h put into the ranking, behind every hit that is at least as close
Rank(ranking, h) ==
    LET before == {i \in 1 .. Len(ranking) : ranking[i].distance <= h.distance}
        n == Cardinality(before)
    IN SubSeq(ranking, 1, n) \o <<h>> \o SubSeq(ranking, n + 1, Len(ranking))

RECURSIVE Ranking(_, _)
\* all records of recs as hits, closest to the query vector first
Ranking(recs, qv) ==
    IF recs = <<>> THEN <<>>
    ELSE Rank(Ranking(SubSeq(recs, 1, Len(recs) - 1), qv), Hit(qv, recs[Len(recs)]))

\* Collection.query that returns the first records stored, unranked
CollectionQueryUnranked(recs, query_text, n_results) ==
    LET qv == Embed(query_text) IN
    [k \in 1 .. Min(n_results, Len(recs)) |-> Hit(qv, recs[k])]

\* Collection.query(query_texts=[query_text], n_results): the n_results nearest
\* records; n_results above the number of stored records is lowered to it
CollectionQuery(recs, query_text, n_results) ==
    SubSeq(Ranking(recs, Embed(query_text)), 1, Min(n_results, Len(recs)))

\* query_db that refuses to return fewer results than asked for
query_db_strict(dbv, o, query_text, n_results, fail) ==
    IF fail THEN [err |-> ConnectionFailure, out |-> <<>>]
    ELSE IF ~HandleValid(dbv, o) THEN [err |-> NotFound, out |-> <<>>]
    ELSE IF n_results > Len(dbv[o.name].recs) THEN [err |-> "NotEnoughElements", out |-> <<>>]
    ELSE [err |-> OK, out |-> CollectionQuery(dbv[o.name].recs, query_text, n_results)]

\* query_db that asks for two results whatever n_results is
query_db_two_results(dbv, o, query_text, n_results, fail) ==
    IF fail THEN [err |-> ConnectionFailure, out |-> <<>>]
    ELSE IF ~HandleValid(dbv, o) THEN [err |-> NotFound, out |-> <<>>]
    ELSE [err |-> OK, out |-> CollectionQuery(dbv[o.name].recs, query_text, 2)]

query_db(dbv, o, query_text, n_results, fail) ==
    IF fail THEN [err |-> ConnectionFailure, out |-> <<>>]
    ELSE IF ~HandleValid(dbv, o) THEN [err |-> NotFound, out |-> <<>>]
    ELSE [err |-> OK, out |-> CollectionQuery(dbv[o.name].recs, query_text, n_results)]

\* a query that counts as a turn: a successful one advances the id counter
QueryAdvancesCounter(s, query_text, n_results, fail) ==
    /\ obj[s] # NoObj
    /\ LET r == query_db(db, obj[s], query_text, n_results, fail) IN
       /\ last' = Outcome("query", r.err, Len(r.out))
       /\ calls' = <<Call("query", r.err)>>
       /\ obj' = [obj EXCEPT ![s].id_counter =
                     IF r.err = OK THEN Min(@ + 1, MaxAdds) ELSE @]
    /\ UNCHANGED <<db, added, destroyed, thr, apart>>

Query(s, query_text, n_results, fail) ==
    /\ obj[s] # NoObj
    /\ LET r == query_db(db, obj[s], query_text, n_results, fail) IN
       /\ last' = Outcome("query", r.err, Len(r.out))
       /\ calls' = <<Call("query", r.err)>>
    /\ UNCHANGED <<db, obj, added, destroyed, thr, apart>>

-----------------------------------------------------------------------------
(* The chat loop of the notebook: combined_context, get_context and          *)
(* chat_with_db.  The completion service is external: it answers with some   *)
(* content or fails.  The user prompt rendered from the template goes only   *)
(* into the completion request and is left out.                              *)

\* the object the global chat_db was bound to when get_context and chat_with_db
\* were defined: the default of their chat_db parameter
chat_db == "s1"

\* the scaled distance that stands for the cosine distance 1
UnitDistance == 25

\* f"{score:.2f}" of a scaled distance
Format2f(score) ==
    LET h == (100 * score) \div UnitDistance IN
    IntToStr(h \div 100) \o "." \o Digit[((h \div 10) % 10) + 1] \o Digit[(h % 10) + 1]

\* combined_context that leaves out the distances
combined_context_no_distance(documents, scores) ==
    IF documents = <<>> \/ scores = <<>> THEN ""
    ELSE Head(documents) \o "\n----------\n"

RECURSIVE combined_context(_, _)
\* for document, score in zip(documents, scores):
\*     string += f"{document}\nCosine distance: {score:.2f}\n{'-'*10}\n"
combined_context(documents, scores) ==
    IF documents = <<>> \/ scores = <<>> THEN ""
    ELSE Head(documents) \o "\nCosine distance: " \o Format2f(Head(scores))
            \o "\n----------\n"
            \o combined_context(Tail(documents), Tail(scores))

\* get_context that hands its n_results argument on to the query
get_context_passes_n_results(dbv, o, user_input, n_results, fail) ==
    LET results == query_db(dbv, o, user_input, n_results, fail)
        context ==
            combined_context([k \in 1 .. Len(results.out) |-> results.out[k].document],
                             [k \in 1 .. Len(results.out) |-> results.out[k].distance])
    IN IF results.err # OK THEN [err |-> results.err, out |-> ""]
       ELSE [err |-> OK,
             out |-> IF context = "" THEN "No relevant chat history found."
                     ELSE context]

\* get_context(user_input, n_results, chat_db=o): the query asks for two results
\* whatever n_results is
get_context(dbv, o, user_input, n_results, fail) ==
    LET results == query_db(dbv, o, user_input, 2, fail)
        context ==
            combined_context([k \in 1 .. Len(results.out) |-> results.out[k].document],
                             [k \in 1 .. Len(results.out) |-> results.out[k].distance])
    IN IF results.err # OK THEN [err |-> results.err, out |-> ""]
       ELSE [err |-> OK,
             out |-> IF context = "" THEN "No relevant chat history found."
                     ELSE context]

\* context = get_context(user_input, n_results, chat_db=s)
GetContext(s, user_input, n_results, fail) ==
    /\ obj[s] # NoObj
    /\ LET r == get_context(db, obj[s], user_input, n_results, fail) IN
       /\ last' = Outcome("get_context", r.err, r.out)
       /\ calls' = <<Call("query", r.err)>>
    /\ UNCHANGED <<db, obj, added, destroyed, thr, apart>>

\* chat_with_db that stores the new turn before it looks for context
chat_with_db_add_first(dbv, objv, user_input, X, response, failAt) ==
    LET a == add_conversation_to_db(dbv, objv[X], user_input, response, failAt = "add")
        objw == [objv EXCEPT ![X] = a.obj]
        c == get_context(a.db, objw[chat_db], user_input, 2, failAt = "query")
    IN IF a.err # OK
       THEN [err |-> a.err, db |-> dbv, obj |-> objv, context |-> "",
             calls |-> <<Call("add", a.err)>>]
       ELSE IF c.err # OK
       THEN [err |-> c.err, db |-> a.db, obj |-> objw, context |-> "",
             calls |-> <<Call("add", OK), Call("query", c.err)>>]
       ELSE IF failAt = "completion"
       THEN [err |-> ConnectionFailure, db |-> a.db, obj |-> objw, context |-> "",
             calls |-> <<Call("add", OK), Call("query", OK),
                         Call("completion", ConnectionFailure)>>]
       ELSE [err |-> OK, db |-> a.db, obj |-> objw, context |-> c.out,
             calls |-> <<Call("add", OK), Call("query", OK), Call("completion", OK)>>]

\* chat_with_db that hands its store X on to get_context
chat_with_db_reads_X(dbv, objv, user_input, X, response, failAt) ==
    LET c == get_context(dbv, objv[X], user_input, 2, failAt = "query")
        a == add_conversation_to_db(dbv, objv[X], user_input, response, failAt = "add")
    IN IF c.err # OK
       THEN [err |-> c.err, db |-> dbv, obj |-> objv, context |-> "",
             calls |-> <<Call("query", c.err)>>]
       ELSE IF failAt = "completion"
       THEN [err |-> ConnectionFailure, db |-> dbv, obj |-> objv, context |-> "",
             calls |-> <<Call("query", OK), Call("completion", ConnectionFailure)>>]
       ELSE [err |-> a.err, db |-> a.db, obj |-> [objv EXCEPT ![X] = a.obj],
             context |-> IF a.err = OK THEN c.out ELSE "",
             calls |-> <<Call("query", OK), Call("completion", OK), Call("add", a.err)>>]

\* chat_with_db(user_input, chat_db=X): get_context on the default store, the
\* completion, then X.add_conversation_to_db(user_input, response); failAt names
\* the call that fails: "query", "completion", "add" or "none"
chat_with_db(dbv, objv, user_input, X, response, failAt) ==
    LET c == get_context(dbv, objv[chat_db], user_input, 2, failAt = "query")
        a == add_conversation_to_db(dbv, objv[X], user_input, response, failAt = "add")
    IN IF c.err # OK
       THEN [err |-> c.err, db |-> dbv, obj |-> objv, context |-> "",
             calls |-> <<Call("query", c.err)>>]
       ELSE IF failAt = "completion"
       THEN [err |-> ConnectionFailure, db |-> dbv, obj |-> objv, context |-> "",
             calls |-> <<Call("query", OK), Call("completion", ConnectionFailure)>>]
       ELSE [err |-> a.err, db |-> a.db, obj |-> [objv EXCEPT ![X] = a.obj],
             context |-> IF a.err = OK THEN c.out ELSE "",
             calls |-> <<Call("query", OK), Call("completion", OK), Call("add", a.err)>>]

\* context, response = chat_with_db(user_input, chat_db=X)
Chat(X, user_input, response, failAt) ==
    /\ obj[chat_db] # NoObj
    /\ obj[X] # NoObj
    /\ obj[X].id_counter < MaxChats
    /\ LET r == chat_with_db(db, obj, user_input, X, response, failAt) IN
       /\ db' = r.db
       /\ obj' = r.obj
       /\ last' = Outcome("chat", r.err, r.context)
       /\ calls' = r.calls
       /\ added' = [added EXCEPT ![X] =
                       IF r.err = OK
                       THEN Append(@, MetadataOf(user_input, response))
                       ELSE @]
    /\ UNCHANGED <<destroyed, thr, apart>>

-----------------------------------------------------------------------------
(* add_conversation_to_db called from several threads on one object.  The  *)
(* interpreter may switch threads between any two of its steps: evaluating *)
(* the arguments (which reads id_counter), the call of Collection.add,     *)
(* and the load and the store of "self.id_counter += 1".                   *)

\* thread t enters add_conversation_to_db and evaluates the arguments of
\* self.chat_db.add: the document, the metadata and str(self.id_counter)
AddEval(t, s, user_message, ai_message) ==
    /\ pc[t] = "idle"
    /\ obj[s] # NoObj
    /\ obj[s].id_counter < MaxAdds
    /\ pc' = [pc EXCEPT ![t] = "call"]
    /\ loc' = [loc EXCEPT ![t] =
                  [store |-> s,
                   rec |-> RecordOf(obj[s].id_counter, user_message, ai_message),
                   tmp |-> 0]]
    /\ overlapped' = (overlapped \/ \E x \in Threads \ {t} : pc[x] # "idle")
    /\ UNCHANGED <<db, obj, last, added, destroyed, calls, apart>>

\* thread t runs self.chat_db.add(...) with the values it evaluated; an error
\* ends the call of add_conversation_to_db
AddCall(t, fail) ==
    /\ pc[t] = "call"
    /\ LET s == loc[t].store
           err == IF fail THEN ConnectionFailure
                  ELSE IF ~HandleValid(db, obj[s]) THEN NotFound ELSE OK
       IN
       /\ db' = IF err = OK
                THEN [db EXCEPT ![obj[s].name].recs = CollectionAdd(@, loc[t].rec)]
                ELSE db
       /\ pc' = [pc EXCEPT ![t] = IF err = OK THEN "load" ELSE "idle"]
       /\ loc' = [loc EXCEPT ![t] = IF err = OK THEN @ ELSE NoLoc]
       /\ last' = IF err = OK THEN last ELSE Outcome("add", err, FALSE)
       /\ calls' = IF err = OK THEN calls ELSE <<Call("add", err)>>
    /\ UNCHANGED <<obj, added, destroyed, overlapped, apart>>

\* thread t loads self.id_counter for "self.id_counter += 1"
AddLoad(t) ==
    /\ pc[t] = "load"
    /\ pc' = [pc EXCEPT ![t] = "store"]
    /\ loc' = [loc EXCEPT ![t].tmp = obj[loc[t].store].id_counter]
    /\ UNCHANGED <<db, obj, last, added, destroyed, overlapped, calls, apart>>

\* thread t stores the incremented value and returns
AddStore(t) ==
    /\ pc[t] = "store"
    /\ LET s == loc[t].store IN
       /\ obj' = [obj EXCEPT ![s].id_counter = NextCounter(loc[t].tmp)]
       /\ added' = [added EXCEPT ![s] = Append(@, loc[t].rec.metadata)]
    /\ pc' = [pc EXCEPT ![t] = "idle"]
    /\ loc' = [loc EXCEPT ![t] = NoLoc]
    /\ last' = Outcome("add", OK, FALSE)
    /\ calls' = <<Call("add", OK)>>
    /\ UNCHANGED <<db, destroyed, overlapped, apart>>

-----------------------------------------------------------------------------
(* The tool-calling exchange of the OpenAI notebook (02_open_ai.ipynb): a   *)
(* completion with the multiply tool on offer, the tool call unpacked, the  *)
(* function run, and the result fed back in a follow-up completion.  The    *)
(* cells run top to bottom; a cell that raises ends the run.                *)

\* the largest number of tool calls the model puts into one assistant message
MaxToolCalls == 2

\* the ids the provider gives to tool calls
ToolCallIds == {"call_1vXSH7jPzjHCLYBlccyzewuB", "call_2"}

\* the numbers the model extracts from the user query
Factors == {1056, 1316}

system_prompt ==
    "You are a helpful mathematician. You will only solve the problems given to you. Do not provide any additional information. Provide only the answer."

user_query == "What is 1056 * 1316?"

\* the content of the model's final answer
Answers == {"1389696", "The answer is 1389696."}

\* a name no cell has bound yet
Unbound == [unbound |-> TRUE]

\* message.content of an assistant message that only calls tools (Python's
\* None, kept apart from every content the service answers with)
None == "None"

\* def multiply(a, b): return a * b
multiply(a, b) == a * b

\* tool_call.function.arguments: the JSON text the provider sends
ArgumentsJson(a, b) ==
    "{\"a\":" \o IntToStr(a) \o ",\"b\":" \o IntToStr(b) \o "}"

\* json.loads(tool_call.function.arguments)
json_loads(text) ==
    CHOOSE d \in [a : Factors, b : Factors] : ArgumentsJson(d.a, d.b) = text

\* json.dumps({"a": a, "b": b, "result": result})
json_dumps(a, b, result) ==
    "{\"a\": " \o IntToStr(a) \o ", \"b\": " \o IntToStr(b)
        \o ", \"result\": " \o IntToStr(result) \o "}"

\* ChatCompletionMessageToolCall(id, function=Function(arguments, name), type)
ToolCall(id, a, b) ==
    [id |-> id, type |-> "function",
     function |-> [name |-> "multiply", arguments |-> ArgumentsJson(a, b)]]

\* the tool_calls lists an assistant message may carry (empty: no tool call)
ToolCallLists ==
    UNION {[1 .. n -> {ToolCall(i, a, b) : i \in ToolCallIds, a \in Factors, b \in Factors}] :
              n \in 0 .. MaxToolCalls}

\* {"role": role, "content": content}
Message(role, content) == [role |-> role, content |-> content]

\* response.choices[0].message
AssistantMessage(content, tool_calls) ==
    [role |-> "assistant", content |-> content, tool_calls |-> tool_calls]

\* the messages of the first completion request
FirstMessages == <<Message("system", system_prompt), Message("user", user_query)>>

\* tool_call_result = {"role": "tool", "content": json.dumps(...), "tool_call_id": ...}
ToolCallResult(arguments, result, tool_call_id) ==
    [role |-> "tool",
     content |-> json_dumps(arguments.a, arguments.b, result),
     tool_call_id |-> tool_call_id]

\* a follow-up request that lists the tool result ahead of the assistant message
FollowUpResultFirst(response_message, tool_call_result) ==
    <<Message("system", system_prompt), Message("user", user_query),
      tool_call_result, response_message>>

\* the messages of the follow-up completion request
FollowUpMessages(response_message, tool_call_result) ==
    <<Message("system", system_prompt), Message("user", user_query),
      response_message, tool_call_result>>

ExchangeStart ==
    [cell |-> "start", response |-> Unbound, arguments |-> Unbound,
     result |-> Unbound, messages |-> <<>>]

\* response = client.chat.completions.create(messages, tools=tools), then
\* print(response.choices[0].message.tool_calls[0]), which raises when the model
\* called no tool
FirstCompletion(tool_calls, content, fail) ==
    /\ exchange.cell = "start"
    /\ exchange' =
          IF fail
          THEN [exchange EXCEPT !.cell = "failed", !.messages = FirstMessages]
          ELSE IF tool_calls = <<>>
          THEN [exchange EXCEPT !.cell = "failed", !.messages = FirstMessages,
                                !.response = AssistantMessage(content, <<>>)]
          ELSE [exchange EXCEPT !.cell = "called", !.messages = FirstMessages,
                                !.response = AssistantMessage(None, tool_calls)]
    /\ UNCHANGED <<store, deploy>>

\* tool_call = response.choices[0].message.tool_calls[0]
\* arguments = json.loads(tool_call.function.arguments)
Unpack ==
    /\ exchange.cell = "called"
    /\ exchange' = [exchange EXCEPT
                       !.cell = "unpacked",
                       !.arguments =
                           json_loads(exchange.response.tool_calls[1].function.arguments)]
    /\ UNCHANGED <<store, deploy>>

\* result = multiply(**arguments)
Multiply ==
    /\ exchange.cell = "unpacked"
    /\ exchange' = [exchange EXCEPT
                       !.cell = "computed",
                       !.result = multiply(exchange.arguments.a, exchange.arguments.b)]
    /\ UNCHANGED <<store, deploy>>

\* tool_call_result = {...}; response = client.chat.completions.create(messages)
FollowUp(content, fail) ==
    /\ exchange.cell = "computed"
    /\ LET tool_call_result ==
               ToolCallResult(exchange.arguments, exchange.result,
                              exchange.response.tool_calls[1].id)
       IN exchange' = [exchange EXCEPT
                          !.cell = IF fail THEN "failed" ELSE "answered",
                          !.messages = FollowUpMessages(exchange.response, tool_call_result),
                          !.response = IF fail THEN @ ELSE AssistantMessage(content, <<>>)]
    /\ UNCHANGED <<store, deploy>>

-----------------------------------------------------------------------------
(* The workflow "Deploy MkDocs to Documentation Repo": mkdocs build, a clone *)
(* of the documentation repository's branch into temp_docs, rsync of the     *)
(* built site into its subdirectory, commit and push.  A tree maps each path *)
(* to the content of the file there, or to Absent.  Other writers may push   *)
(* to the branch at any time.  A step that exits non-zero fails the job.     *)

\* the largest number of pushes other writers make to the branch
MaxOtherPushes == 2

MKDOCS_SITE_DIR == "site"
DOCS_SUBDIR == "hands-on-llms"

\* the paths below the site directory that mkdocs build may write
SitePaths == {"index.html", "old.html"}

\* the paths of the documentation repository outside the subdirectory
OutsidePaths == {"README.md"}

\* file contents
Contents == {"a", "b"}
Absent == "absent"

\* temp_docs/${DOCS_SUBDIR}/p, relative to temp_docs
InSubdir(p) == DOCS_SUBDIR \o "/" \o p

DocPaths == OutsidePaths \cup {InSubdir(p) : p \in SitePaths}

\* what mkdocs build may leave in the site directory
Builds == [SitePaths -> Contents \cup {Absent}]

\* the branch of the documentation repository before the workflow runs
RemoteStart == [rev |-> 0, tree |-> [q \in DocPaths |-> "a"]]

\* rsync -av without --delete: files the build lacks stay in the target
rsync_keeps_extraneous(sitev, treev) ==
    [q \in DocPaths |->
        IF \E p \in SitePaths : q = InSubdir(p) /\ sitev[p] # Absent
        THEN sitev[CHOOSE p \in SitePaths : q = InSubdir(p)]
        ELSE treev[q]]

\* rsync -av --delete site/ temp_docs/hands-on-llms/: the target directory
\* becomes a copy of the site directory, the rest of temp_docs stays
rsync(sitev, treev) ==
    [q \in DocPaths |->
        IF \E p \in SitePaths : q = InSubdir(p)
        THEN sitev[CHOOSE p \in SitePaths : q = InSubdir(p)]
        ELSE treev[q]]

\* git stash && git pull --rebase && git stash pop: the changes of the work
\* tree mine against its commit base, applied to the pulled commit theirs; a
\* path changed differently on both sides is a conflict and the pop fails
stash_pop(base, mine, theirs) ==
    [ok   |-> \A q \in DocPaths :
                 mine[q] = base[q] \/ theirs[q] = base[q] \/ mine[q] = theirs[q],
     tree |-> [q \in DocPaths |-> IF mine[q] # base[q] THEN mine[q] ELSE theirs[q]]]

DeployStart ==
    [step |-> "start", site |-> Unbound, tree |-> Unbound, head |-> Unbound,
     cloned_rev |-> 0, base_rev |-> 0, remote |-> RemoteStart]

\* step "Build the MkDocs site": mkdocs build
Build(b, fail) ==
    /\ deploy.step = "start"
    /\ deploy' = IF fail THEN [deploy EXCEPT !.step = "failed"]
                 ELSE [deploy EXCEPT !.step = "built", !.site = b]
    /\ UNCHANGED <<store, exchange>>

\* step "Clone the Documentation Repo": git clone --branch gh-pages ... temp_docs
Clone(fail) ==
    /\ deploy.step = "built"
    /\ deploy' = IF fail THEN [deploy EXCEPT !.step = "failed"]
                 ELSE [deploy EXCEPT !.step = "cloned",
                                     !.tree = deploy.remote.tree,
                                     !.head = deploy.remote.tree,
                                     !.cloned_rev = deploy.remote.rev,
                                     !.base_rev = deploy.remote.rev]
    /\ UNCHANGED <<store, exchange>>

\* step "Deploy to Documentation Repo", first part: mkdir -p and rsync
Rsync ==
    /\ deploy.step = "cloned"
    /\ deploy' = [deploy EXCEPT !.step = "synced",
                                !.tree = rsync(deploy.site, deploy.tree)]
    /\ UNCHANGED <<store, exchange>>

\* second part: git add .; when the work tree differs from HEAD, stash, pull
\* --rebase and stash pop; git add .; commit when it still differs from HEAD
Commit(fail) ==
    /\ deploy.step = "synced"
    /\ LET r == stash_pop(deploy.head, deploy.tree, deploy.remote.tree) IN
       deploy' =
          IF deploy.tree = deploy.head THEN [deploy EXCEPT !.step = "committed"]
          ELSE IF fail THEN [deploy EXCEPT !.step = "failed", !.tree = deploy.head]
          ELSE IF ~r.ok
          THEN [deploy EXCEPT !.step = "failed",
                              !.tree = deploy.remote.tree,
                              !.head = deploy.remote.tree,
                              !.base_rev = deploy.remote.rev]
          ELSE [deploy EXCEPT !.step = "committed",
                              !.tree = r.tree,
                              !.head = r.tree,
                              !.base_rev = deploy.remote.rev]
    /\ UNCHANGED <<store, exchange>>

\* last part: git push origin gh-pages, rejected when the branch has moved
Push(fail) ==
    /\ deploy.step = "committed"
    /\ deploy' =
          IF fail \/ deploy.base_rev # deploy.remote.rev
          THEN [deploy EXCEPT !.step = "failed"]
          ELSE [deploy EXCEPT
                   !.step = "pushed",
                   !.remote = IF deploy.head = deploy.remote.tree THEN @
                              ELSE [rev |-> @.rev + 1, tree |-> deploy.head]]
    /\ UNCHANGED <<store, exchange>>

\* step "Clean up" (if: always()): rm -rf temp_docs
CleanUp ==
    /\ deploy.step \in {"pushed", "failed"}
    /\ deploy' = [deploy EXCEPT !.step = "done", !.tree = Unbound, !.head = Unbound]
    /\ UNCHANGED <<store, exchange>>

\* another writer pushes a commit that changes one file of the branch
OtherPush(q, c) ==
    /\ deploy.step # "done"
    /\ deploy.remote.rev < MaxOtherPushes
    /\ deploy.remote.tree[q] # c
    /\ deploy' = [deploy EXCEPT
                     !.remote = [rev |-> @.rev + 1, tree |-> [@.tree EXCEPT ![q] = c]]]
    /\ UNCHANGED <<store, exchange>>

-----------------------------------------------------------------------------

Init ==
    /\ db = [n \in Names |-> NoColl]
    /\ obj = [s \in Stores |-> NoObj]
    /\ last = Outcome("none", OK, FALSE)
    /\ added = [s \in Stores |-> <<>>]
    /\ destroyed = [s \in Stores |-> FALSE]
    /\ pc = [t \in Threads |-> "idle"]
    /\ loc = [t \in Threads |-> NoLoc]
    /\ overlapped = FALSE
    /\ calls = <<>>
    /\ exchange = ExchangeStart
    /\ deploy = DeployStart

Next ==
    \/ \E s \in Stores, n \in Names, m \in Models, fail \in BOOLEAN :
          Construct(s, n, m, fail)
    \/ \E s \in Stores, t \in Turns, fail \in BOOLEAN :
          Add(s, t[1], t[2], fail)
    \/ \E s \in Stores, fail \in BOOLEAN : GetAll(s, fail)
    \/ \E s \in Stores, reinitialize \in BOOLEAN, failAt \in {"none", "delete", "create"} :
          Clear(s, reinitialize, failAt)
    \/ \E s \in Stores, q \in QueryTexts, n \in 1 .. MaxN, fail \in BOOLEAN :
          Query(s, q, n, fail)

Spec == Init /\ [][Next]_vars

\* the object the caller threads share
Shared == "s1"

\* one store object used by several caller threads at once
NextThreads ==
    \/ \E n \in Names, m \in Models, fail \in BOOLEAN : Construct(Shared, n, m, fail)
    \/ \E t \in Threads, u \in ThreadTurns : AddEval(t, Shared, u[1], u[2])
    \/ \E t \in Threads, fail \in BOOLEAN : AddCall(t, fail)
    \/ \E t \in Threads : AddLoad(t)
    \/ \E t \in Threads : AddStore(t)

SpecThreads == Init /\ [][NextThreads]_vars

\* the notebook's run on its one store object: the turns of cell 4 added in any
\* order, queried and cleared, any call failing when the backend is unreachable
NextNotebook ==
    \/ \E n \in Names, m \in Models, fail \in BOOLEAN : Construct(Shared, n, m, fail)
    \/ \E k \in 1 .. Len(NotebookTurns), fail \in BOOLEAN :
          AddUpTo(Len(NotebookTurns), Shared,
                  NotebookTurns[k][1], NotebookTurns[k][2], fail)
    \/ \E q \in QueryTexts, n \in 1 .. MaxN, fail \in BOOLEAN :
          Query(Shared, q, n, fail)
    \/ \E reinitialize \in BOOLEAN, failAt \in {"none", "delete", "create"} :
          Clear(Shared, reinitialize, failAt)

SpecNotebook == Init /\ [][NextNotebook]_vars

\* one run of the tool-calling cells
NextTools ==
    \/ \E tool_calls \in ToolCallLists, content \in Answers, fail \in BOOLEAN :
          FirstCompletion(tool_calls, content, fail)
    \/ Unpack
    \/ Multiply
    \/ \E content \in Answers, fail \in BOOLEAN : FollowUp(content, fail)

SpecTools == Init /\ [][NextTools]_vars

\* one run of the deploy job, with other writers pushing to the branch
NextDeploy ==
    \/ \E b \in Builds, fail \in BOOLEAN : Build(b, fail)
    \/ \E fail \in BOOLEAN : Clone(fail)
    \/ Rsync
    \/ \E fail \in BOOLEAN : Commit(fail)
    \/ \E fail \in BOOLEAN : Push(fail)
    \/ CleanUp
    \/ \E q \in DocPaths, c \in Contents \cup {Absent} : OtherPush(q, c)

SpecDeploy == Init /\ [][NextDeploy]_vars

\* the chat loop of the notebook on its store objects
NextChat ==
    \/ \E s \in Stores, n \in Names, m \in Models, fail \in BOOLEAN :
          Construct(s, n, m, fail)
    \/ \E X \in Stores, u \in ChatInputs, r \in Responses,
          failAt \in {"none", "query", "completion", "add"} :
          Chat(X, u, r, failAt)
    \/ \E s \in Stores, u \in ChatInputs, n \in 1 .. MaxN, fail \in BOOLEAN :
          GetContext(s, u, n, fail)
    \/ \E s \in Stores, reinitialize \in BOOLEAN, failAt \in {"none", "delete", "create"} :
          Clear(s, reinitialize, failAt)

SpecChat == Init /\ [][NextChat]_vars

\* the chat loop with a second store next to the default one: the collection
\* names a caller may give to ChatDB(name)
StoreNames == Names \cup {"other_db"}

InitTwoStores ==
    /\ db = [n \in StoreNames |-> NoColl]
    /\ obj = [s \in Stores |-> NoObj]
    /\ last = Outcome("none", OK, FALSE)
    /\ added = [s \in Stores |-> <<>>]
    /\ destroyed = [s \in Stores |-> FALSE]
    /\ pc = [t \in Threads |-> "idle"]
    /\ loc = [t \in Threads |-> NoLoc]
    /\ overlapped = FALSE
    /\ calls = <<>>
    /\ exchange = ExchangeStart
    /\ deploy = DeployStart

NextTwoStores ==
    \/ \E s \in Stores, n \in StoreNames, m \in Models, fail \in BOOLEAN :
          Construct(s, n, m, fail)
    \/ \E X \in Stores, u \in ChatInputs, r \in Responses,
          failAt \in {"none", "query", "completion", "add"} :
          Chat(X, u, r, failAt)

SpecTwoStores == InitTwoStores /\ [][NextTwoStores]_vars

-----------------------------------------------------------------------------
(* Properties *)

\* the id strings in the order a store hands them out
IdStrings == <<"0", "1", "2", "3", "4", "5", "6", "7", "8", "9">>

\* the stored records of the collection the live object s is attached to
Stored(s) == db[obj[s].name].recs

\* C1: on a live store, get_all_entries returns exactly the turns its successful
\* adds stored since it was built or last cleared, no more and no fewer, and the
\* n turns carry the pairwise distinct ids "0", "1", ..., "n-1" in the order added
C1_GetAllReturnsTheTurnsAdded ==
    \A s \in Stores :
        Live(s) =>
            LET r == get_all_entries(db, obj[s], FALSE) IN
            /\ r.err = OK
            /\ Len(r.out) = Len(added[s])
            /\ \A k \in 1 .. Len(r.out) :
                  /\ r.out[k].id = IdStrings[k]
                  /\ r.out[k].metadata = added[s][k]
            /\ \A j, k \in 1 .. Len(r.out) : j # k => r.out[j].id # r.out[k].id

\* C1 witness: get_all_entries has just returned the turns of at least two adds
C1_Witness ==
    /\ last = Outcome("get_all", OK, 2)
    /\ \E s \in Stores : Live(s) /\ Len(added[s]) = 2

\* C2: a successful clear_db(reinitialize=True) on a live store leaves the store
\* live under the same name and embedding model, get_all_entries then returns
\* nothing, and the next successful add is stored under id "0"
C2_ClearReinitializeStartsAfresh ==
    [][\A s \in Stores :
          (Live(s) /\ Clear(s, TRUE, "none")) =>
              /\ last' = Outcome("clear", OK, TRUE)
              /\ HandleValid(db', obj'[s])
              /\ obj'[s].name = obj[s].name
              /\ obj'[s].model_name = obj[s].model_name
              /\ get_all_entries(db', obj'[s], FALSE) = [err |-> OK, out |-> <<>>]
              /\ \A t \in Turns :
                    LET r == add_conversation_to_db(db', obj'[s], t[1], t[2], FALSE) IN
                    /\ r.err = OK
                    /\ Len(r.db[obj[s].name].recs) = 1
                    /\ r.db[obj[s].name].recs[1].id = "0"
                    /\ r.db[obj[s].name].recs[1].metadata = MetadataOf(t[1], t[2])
      ]_vars

\* C2 witness: clear_db(reinitialize=True) has just succeeded and the store is
\* live and empty again
C2_Witness ==
    /\ last = Outcome("clear", OK, TRUE)
    /\ \E s \in Stores : Live(s) /\ Stored(s) = <<>> /\ obj[s].id_counter = 0


C4_FailedAddChangesNothing ==
    [][\A s \in Stores, t \in Turns, fail \in BOOLEAN :
          (Add(s, t[1], t[2], fail) /\ (fail \/ ~Live(s))) =>
              /\ last'.op = "add"
              /\ last'.err = IF fail THEN ConnectionFailure ELSE NotFound
              /\ obj' = obj
              /\ db' = db
              /\ Live(s) =>
                    \A u \in Turns :
                        LET r == add_conversation_to_db(db', obj'[s], u[1], u[2], FALSE)
                            recs == r.db[obj[s].name].recs
                        IN /\ r.err = OK
                           /\ Len(recs) = Len(Stored(s)) + 1
                           /\ recs[Len(recs)].id = IdStrings[obj[s].id_counter + 1]
                           /\ recs[Len(recs)].metadata = MetadataOf(u[1], u[2])
      ]_vars

\* C4 witness: an add on a live store that already holds a turn has just failed
C4_Witness ==
    /\ last = Outcome("add", ConnectionFailure, FALSE)
    /\ \E s \in Stores : Live(s) /\ Len(Stored(s)) = 1 /\ obj[s].id_counter = 1

\* C5 as stated: the constructor succeeds whether or not a collection of that
\* name exists, and the new store is live with id counter 0
C5_ConstructOpensOrCreates ==
    [][\A s \in Stores, n \in Names, m \in Models :
          Construct(s, n, m, FALSE) =>
              /\ last'.err = OK
              /\ (Live(s))'
              /\ obj'[s].id_counter = 0
      ]_vars

\* C6: query_db on a live store that holds no turn returns an empty result and
\* raises nothing, for every n_results >= 1
C6_QueryOnEmptyStoreIsEmpty ==
    \A s \in Stores :
        (Live(s) /\ Stored(s) = <<>>) =>
            \A q \in QueryTexts, n \in 1 .. MaxN :
                query_db(db, obj[s], q, n, FALSE) = [err |-> OK, out |-> <<>>]

\* C6 witness: query_db has just returned nothing from a live, empty store
C6_Witness ==
    /\ last = Outcome("query", OK, 0)
    /\ \E s \in Stores : Live(s) /\ Stored(s) = <<>>

\* C7: query_db(text, n) on a live store holding c turns returns min(n, c)
\* results and does not fail when n > c; the results are distinct stored turns
\* with their distances to the query, in order of non-decreasing distance, and no
\* stored turn left out is strictly closer than a returned one
C7_QueryReturnsTheNearest ==
    \A s \in Stores :
        Live(s) =>
            \A q \in QueryTexts, n \in 1 .. MaxN :
                LET r == query_db(db, obj[s], q, n, FALSE)
                    c == Len(Stored(s))
                    returned == {r.out[k].id : k \in 1 .. Len(r.out)}
                IN
                /\ r.err = OK
                /\ Len(r.out) = IF n <= c THEN n ELSE c
                /\ \A k \in 1 .. Len(r.out) :
                      \E i \in 1 .. c :
                          /\ Stored(s)[i].id = r.out[k].id
                          /\ Stored(s)[i].document = r.out[k].document
                          /\ Stored(s)[i].metadata = r.out[k].metadata
                          /\ r.out[k].distance =
                                CosineDistance(Embed(q), Embed(Stored(s)[i].document))
                /\ \A j, k \in 1 .. Len(r.out) : j # k => r.out[j].id # r.out[k].id
                /\ \A j, k \in 1 .. Len(r.out) :
                      j < k => r.out[j].distance <= r.out[k].distance
                /\ \A i \in 1 .. c :
                      Stored(s)[i].id \notin returned =>
                          \A k \in 1 .. Len(r.out) :
                              CosineDistance(Embed(q), Embed(Stored(s)[i].document))
                                  >= r.out[k].distance

\* C7 witness: query_db has just returned both turns of a store whose first
\* stored turn is farther from "Food" than its second
C7_Witness ==
    /\ last = Outcome("query", OK, 2)
    /\ \E s \in Stores :
          /\ Live(s)
          /\ Len(Stored(s)) = 2
          /\ CosineDistance(Embed("Food"), Embed(Stored(s)[1].document))
                > CosineDistance(Embed("Food"), Embed(Stored(s)[2].document))

\* the document of a turn, written out
C8_Document(t) ==
    CASE t = <<"Food", "What budget?">> -> "User: Food\nAI: What budget?"
      [] t = <<"", "What budget?">>     -> "User: \nAI: What budget?"
      [] t = <<"Food", "">>             -> "User: Food\nAI: "

\* C8: a successful add(user_message, ai_message) stores exactly one new record:
\* its id is the string of the counter before the call, its document is
\* "User: " + user_message + newline + "AI: " + ai_message, its metadata holds the
\* two arguments unchanged; the counter then is one higher
C8_AddStoresOneRecord ==
    [][\A s \in Stores, t \in Turns :
          (Live(s) /\ Add(s, t[1], t[2], FALSE)) =>
              /\ last' = Outcome("add", OK, FALSE)
              /\ db' = [db EXCEPT ![obj[s].name].recs =
                           Append(@, [id |-> IdStrings[obj[s].id_counter + 1],
                                      document |-> C8_Document(t),
                                      metadata |-> [user_message |-> t[1],
                                                    ai_message |-> t[2]]])]
              /\ obj' = [obj EXCEPT ![s].id_counter = obj[s].id_counter + 1]
      ]_vars

\* C8 witness: a second add on a live store has just succeeded
C8_Witness ==
    /\ last = Outcome("add", OK, FALSE)
    /\ \E s \in Stores : Live(s) /\ Len(Stored(s)) = 2 /\ obj[s].id_counter = 2

\* no caller thread is inside add_conversation_to_db
AllIdle == \A t \in Threads : pc[t] = "idle"

\* C9: as long as no add_conversation_to_db call has begun while another was
\* running, the stored ids are pairwise distinct and, between calls, there are as
\* many of them as successful adds; with overlapping calls a state is reachable
\* where two successful adds were submitted under one id (the witness)
C9_SequentialAddsGetDistinctIds ==
    (~overlapped /\ Live(Shared)) =>
        /\ Cardinality(IdsOf(Stored(Shared))) = Len(Stored(Shared))
        /\ AllIdle => Len(added[Shared]) = Cardinality(IdsOf(Stored(Shared)))

\* C9 witness: two overlapping adds have both returned without error and the
\* store holds one id for them
C9_Witness ==
    /\ overlapped
    /\ AllIdle
    /\ Live(Shared)
    /\ Len(added[Shared]) = 2
    /\ Cardinality(IdsOf(Stored(Shared))) = 1

\* C10: a stored turn is never changed or removed by add, get_all or query; the
\* records of a collection go away only through clear_db, and then all at once
C10_StoredTurnsAreImmutable ==
    [][\A n \in Names :
          db[n] # NoColl =>
              \/ /\ db'[n] # NoColl
                 /\ Len(db'[n].recs) >= Len(db[n].recs)
                 /\ SubSeq(db'[n].recs, 1, Len(db[n].recs)) = db[n].recs
              \/ /\ last'.op = "clear"
                 /\ \E s \in Stores, r \in BOOLEAN, f \in {"none", "delete", "create"} :
                       Clear(s, r, f) /\ obj[s].name = n
                 /\ (db'[n] = NoColl \/ db'[n].recs = <<>>)
      ]_vars

\* C10 witness: a later add has just succeeded on a store that held a turn
C10_Witness ==
    /\ last = Outcome("add", OK, FALSE)
    /\ \E s \in Stores :
          /\ Live(s)
          /\ Len(Stored(s)) = 2
          /\ Stored(s)[1].id = "0"
          /\ Stored(s)[1].metadata = added[s][1]

\* C11: on a live store the id counter equals the number of records stored in
\* its collection, after any sequence of construct, add (successful or failed),
\* get_all, query and clear
C11_CounterCountsTheEntries ==
    \A s \in Stores :
        Live(s) => obj[s].id_counter = Len(Stored(s))

\* C11 witness: a query has just failed on a live store whose counter and
\* collection both stand at two turns
C11_Witness ==
    /\ last = Outcome("query", ConnectionFailure, 0)
    /\ \E s \in Stores : Live(s) /\ obj[s].id_counter = 2 /\ Len(Stored(s)) = 2

\* C12: an error raised by a library call during construct, add, get_all, query
\* or clear is the error the caller gets, and the failing operation does not
\* retry: the failed call is the last call the operation made, and no call is
\* made twice
C12_ErrorsSurfaceWithoutRetry ==
    /\ \A i \in 1 .. Len(calls) : calls[i].err # OK => i = Len(calls)
    /\ \A i, j \in 1 .. Len(calls) : i # j => calls[i].call # calls[j].call
    /\ calls # <<>> => last.err = calls[Len(calls)].err
    /\ last.err # OK => calls # <<>>

\* C12 witness: clear_db(reinitialize=True) has just failed in delete_collection
\* and made no create_collection call after it
C12_Witness ==
    /\ last = Outcome("clear", ConnectionFailure, TRUE)
    /\ calls = <<Call("delete_collection", ConnectionFailure)>>

\* C13 as stated: add with an empty user message or an empty assistant message
\* fails with InvalidArgument, stores no turn and does not advance the counter
C13_EmptyMessageIsRejected ==
    [][\A s \in Stores, t \in Turns :
          (Live(s) /\ (t[1] = "" \/ t[2] = "") /\ Add(s, t[1], t[2], FALSE)) =>
              /\ last' = Outcome("add", "InvalidArgument", FALSE)
              /\ db' = db
              /\ obj' = obj
      ]_vars

\* the store of the notebook holds the greeting, the restaurant and the
\* Italian-food turn, added in that order to an empty store
ThreeTurnScenario ==
    /\ Live(Shared)
    /\ Len(Stored(Shared)) = 3
    /\ \A k \in 1 .. 3 :
          /\ Stored(Shared)[k].id = IdStrings[k]
          /\ Stored(Shared)[k].metadata =
                MetadataOf(NotebookTurns[k][1], NotebookTurns[k][2])

\* C14 as stated: in the three-turn scenario query_db("Food", 3) returns all
\* three turns and the Italian-food turn is ranked first
C14_ItalianFoodRankedFirst ==
    ThreeTurnScenario =>
        LET r == query_db(db, obj[Shared], "Food", 3, FALSE) IN
        /\ r.err = OK
        /\ {r.out[k].id : k \in 1 .. Len(r.out)} = {"0", "1", "2"}
        /\ r.out[1].metadata = MetadataOf(NotebookTurns[3][1], NotebookTurns[3][2])

\* C14 amended: in the three-turn scenario query_db("Food", 3) returns all three
\* turns in order of non-decreasing distance: the restaurant turn (id "1") first,
\* the Italian-food turn (id "2") second, the greeting turn (id "0") last
C14_RestaurantRankedFirst ==
    ThreeTurnScenario =>
        LET r == query_db(db, obj[Shared], "Food", 3, FALSE) IN
        /\ r.err = OK
        /\ Len(r.out) = 3
        /\ <<r.out[1].id, r.out[2].id, r.out[3].id>> = <<"1", "2", "0">>
        /\ \A k \in 1 .. 3 :
              r.out[k].metadata =
                 MetadataOf(NotebookTurns[(k % 3) + 1][1], NotebookTurns[(k % 3) + 1][2])
        /\ r.out[1].distance <= r.out[2].distance
        /\ r.out[2].distance <= r.out[3].distance

\* C14 witness: query_db has just returned three results from the store of the
\* three-turn scenario
C14_Witness ==
    /\ last = Outcome("query", OK, 3)
    /\ ThreeTurnScenario

\* the embeddings the stub provider hands out
StubVectors == {Embed(text) : text \in KnownTexts}

\* a distance is 0 exactly for identical embeddings, and of two embeddings the
\* one less similar to a third is at the larger distance from it
DistanceOrdersBySimilarity ==
    /\ \A a, b \in StubVectors : (CosineDistance(a, b) = 0) <=> (a = b)
    /\ \A a, b, c \in StubVectors :
          (Dot(a, b) > Dot(a, c)) <=> (CosineDistance(a, b) < CosineDistance(a, c))

\* C15: with the stub embedding provider, query_db with the exact text of a
\* stored document returns that document at distance 0, ranked before every
\* stored document whose embedding differs; a distance is 0 exactly for identical
\* embeddings, and of two documents the less similar one is at the larger distance
C15_ExactTextIsClosest ==
    /\ DistanceOrdersBySimilarity
    /\ \A s \in Stores, q \in QueryTexts :
          (Live(s) /\ \E i \in 1 .. Len(Stored(s)) : Stored(s)[i].document = q) =>
              \A n \in 1 .. MaxN :
                  LET r == query_db(db, obj[s], q, n, FALSE) IN
                  /\ r.err = OK
                  /\ r.out[1].document = q
                  /\ r.out[1].distance = 0
                  /\ \A j \in 1 .. Len(r.out) :
                        Embed(r.out[j].document) # Embed(q) =>
                            /\ r.out[j].distance > 0
                            /\ \A i \in 1 .. Len(r.out) :
                                  r.out[i].document = q => i < j

\* C15 witness: a query has just returned both turns of a store whose second
\* turn is a document used as query text and whose first turn is another document
C15_Witness ==
    /\ last = Outcome("query", OK, 2)
    /\ \E s \in Stores, q \in QueryTexts :
          /\ Live(s)
          /\ Len(Stored(s)) = 2
          /\ Stored(s)[2].document = q
          /\ Stored(s)[1].document # q

\* C16: the follow-up completion request of the tool-calling exchange lists its
\* messages in the order system, user, the assistant message that contains the
\* tool call, tool result; the tool result's tool_call_id is the id of the first
\* tool call of that assistant message, so every tool result refers to a tool
\* call that precedes it in the same message list
C16_ToolResultFollowsItsCall ==
    [][\A content \in Answers, fail \in BOOLEAN :
          FollowUp(content, fail) =>
              LET m == exchange'.messages IN
              /\ Len(m) = 4
              /\ <<m[1].role, m[2].role, m[3].role, m[4].role>> =
                    <<"system", "user", "assistant", "tool">>
              /\ m[1].content = system_prompt
              /\ m[2].content = user_query
              /\ m[3] = exchange.response
              /\ m[3].tool_calls # <<>>
              /\ m[4].tool_call_id = m[3].tool_calls[1].id
              /\ \A i \in 1 .. Len(m) :
                    m[i].role = "tool" =>
                        \E j \in 1 .. i - 1 :
                            /\ m[j].role = "assistant"
                            /\ \E c \in 1 .. Len(m[j].tool_calls) :
                                  m[j].tool_calls[c].id = m[i].tool_call_id
      ]_vars

\* C16 witness: the follow-up request was sent and answered after an assistant
\* message with two tool calls of different ids
C16_Witness ==
    /\ exchange.cell = "answered"
    /\ Len(exchange.messages) = 4
    /\ Len(exchange.messages[3].tool_calls) = 2
    /\ exchange.messages[3].tool_calls[1].id # exchange.messages[3].tool_calls[2].id

\* C17: the rsync of a deploy run leaves in the hands-on-llms subdirectory of
\* the clone exactly the files of the built site (files the build lacks are
\* deleted there) and changes nothing else; the push of the run changes no file
\* of the documentation repository outside that subdirectory, and when nobody
\* else pushed since the clone the subdirectory of the branch then holds exactly
\* the built site; no other step of the run changes the branch
C17_DeployMirrorsTheSite ==
    [][/\ Rsync =>
             /\ \A p \in SitePaths : deploy'.tree[InSubdir(p)] = deploy.site[p]
             /\ \A q \in OutsidePaths : deploy'.tree[q] = deploy.tree[q]
             /\ deploy'.remote = deploy.remote
       /\ \A fail \in BOOLEAN :
             (Push(fail) /\ deploy'.step = "pushed") =>
                 /\ \A q \in OutsidePaths :
                       deploy'.remote.tree[q] = deploy.remote.tree[q]
                 /\ deploy.cloned_rev = deploy.base_rev =>
                       \A p \in SitePaths :
                           deploy'.remote.tree[InSubdir(p)] = deploy.site[p]
       /\ deploy'.remote # deploy.remote =>
             \/ \E fail \in BOOLEAN : Push(fail)
             \/ \E q \in DocPaths, c \in Contents \cup {Absent} : OtherPush(q, c)
      ]_vars

\* C17 witness: the run has pushed a build that lacks old.html and brings a new
\* index.html, after another writer changed README.md between clone and commit
C17_Witness ==
    /\ deploy.step = "pushed"
    /\ deploy.site["old.html"] = Absent
    /\ deploy.site["index.html"] = "b"
    /\ deploy.remote.tree[InSubdir("old.html")] = Absent
    /\ deploy.remote.tree[InSubdir("index.html")] = "b"
    /\ deploy.remote.tree["README.md"] = "b"
    /\ deploy.cloned_rev # deploy.base_rev

\* f"{score:.2f}" of the scaled distances, written out
Score2f ==
    [d \in {0, 5, 10, 15, 20, 25, 30, 35, 40, 45, 50} |->
        CASE d = 0 -> "0.00" [] d = 5 -> "0.20" [] d = 10 -> "0.40" [] d = 15 -> "0.60"
          [] d = 20 -> "0.80" [] d = 25 -> "1.00" [] d = 30 -> "1.20" [] d = 35 -> "1.40"
          [] d = 40 -> "1.60" [] d = 45 -> "1.80" [] d = 50 -> "2.00"]

\* the block of the context that shows one query result
ContextBlock(hit) ==
    hit.document \o "\nCosine distance: " \o Score2f[hit.distance] \o "\n----------\n"

\* the context made of the query results hits, at most two of them
ExpectedContext(hits) ==
    CASE Len(hits) = 0 -> "No relevant chat history found."
      [] Len(hits) = 1 -> ContextBlock(hits[1])
      [] Len(hits) = 2 -> ContextBlock(hits[1]) \o ContextBlock(hits[2])

\* C18: a successful chat_with_db call queries the store for context, then calls
\* the completion service, then adds the (user_input, response) turn; the context
\* it returns is made of turns stored before the call, never of the turn the call
\* creates, and the store written to grows by exactly that one turn
C18_ChatQueriesBeforeItAdds ==
    [][\A X \in Stores, u \in ChatInputs, r \in Responses :
          (Chat(X, u, r, "none") /\ last'.err = OK) =>
              LET hits == query_db(db, obj[chat_db], u, 2, FALSE).out
                  new == RecordOf(obj[X].id_counter, u, r)
              IN
              /\ calls' = <<Call("query", OK), Call("completion", OK), Call("add", OK)>>
              /\ last'.arg = ExpectedContext(hits)
              /\ \A k \in 1 .. Len(hits) :
                    /\ hits[k].id # new.id
                    /\ \E i \in 1 .. Len(Stored(chat_db)) :
                          Stored(chat_db)[i].id = hits[k].id
              /\ new.id \notin IdsOf(Stored(X))
              /\ db' = [db EXCEPT ![obj[X].name].recs = Append(@, new)]
              /\ obj' = [obj EXCEPT ![X].id_counter = @ + 1]
      ]_vars

\* C18 witness: a chat_with_db call has just succeeded on a store that held two
\* turns, and the turn it added is closer to its input than one of the two
C18_Witness ==
    /\ last.op = "chat"
    /\ last.err = OK
    /\ Live(chat_db)
    /\ Len(Stored(chat_db)) = 3
    /\ \E u \in ChatInputs :
          /\ Stored(chat_db)[3].metadata.user_message = u
          /\ \E k \in 1 .. 2 :
                CosineDistance(Embed(u), Embed(Stored(chat_db)[3].document))
                    < CosineDistance(Embed(u), Embed(Stored(chat_db)[k].document))

\* C19: when the completion call inside chat_with_db fails, no turn is added:
\* the collections, the id counters and the turns added are as before the call,
\* although the context query has already run
C19_FailedCompletionAddsNothing ==
    [][\A X \in Stores, u \in ChatInputs, r \in Responses :
          (Live(chat_db) /\ Chat(X, u, r, "completion")) =>
              /\ last' = Outcome("chat", ConnectionFailure, "")
              /\ calls' = <<Call("query", OK), Call("completion", ConnectionFailure)>>
              /\ db' = db
              /\ obj' = obj
              /\ added' = added
      ]_vars

\* C19 witness: a chat_with_db call on a store holding one turn has just failed
\* in the completion call, after its context query
C19_Witness ==
    /\ last = Outcome("chat", ConnectionFailure, "")
    /\ calls = <<Call("query", OK), Call("completion", ConnectionFailure)>>
    /\ Live(chat_db)
    /\ Len(Stored(chat_db)) = 1
    /\ obj[chat_db].id_counter = 1

\* C20: get_context returns "No relevant chat history found." exactly when its
\* query returns no document; otherwise it returns one block per document the
\* query returned, in the order returned (closest first), each block holding the
\* document and its distance
C20_ContextListsTheQueryResults ==
    \A s \in Stores, u \in ChatInputs, n \in 1 .. MaxN :
        Live(s) =>
            LET hits == query_db(db, obj[s], u, 2, FALSE).out
                r == get_context(db, obj[s], u, n, FALSE)
            IN
            /\ r.err = OK
            /\ (r.out = "No relevant chat history found.") <=> (hits = <<>>)
            /\ Len(hits) = 1 =>
                  r.out = hits[1].document \o "\nCosine distance: "
                              \o Score2f[hits[1].distance] \o "\n----------\n"
            /\ Len(hits) = 2 =>
                  /\ r.out = ContextBlock(hits[1]) \o ContextBlock(hits[2])
                  /\ hits[1].distance <= hits[2].distance

\* C20 witness: get_context has just returned two blocks from a store whose
\* second turn is closer to the input than its first
C20_Witness ==
    /\ last.op = "get_context"
    /\ last.err = OK
    /\ \E s \in Stores, u \in ChatInputs :
          /\ Live(s)
          /\ Len(Stored(s)) = 2
          /\ CosineDistance(Embed(u), Embed(Stored(s)[2].document))
                < CosineDistance(Embed(u), Embed(Stored(s)[1].document))
          /\ last.arg = ContextBlock(Hit(Embed(u), Stored(s)[2]))
                           \o ContextBlock(Hit(Embed(u), Stored(s)[1]))

\* C21: get_context queries the store for two results whatever its n_results
\* argument is: for every n_results and every store size the context is the one
\* made of the results of query_db(user_input, 2), so it holds at most two turns,
\* and min(2, c) of them when the store holds c
C21_ContextHoldsAtMostTwoTurns ==
    \A s \in Stores, u \in ChatInputs, n \in 1 .. MaxN :
        Live(s) =>
            LET two == query_db(db, obj[s], u, 2, FALSE).out
                r == get_context(db, obj[s], u, n, FALSE)
            IN
            /\ r.err = OK
            /\ Len(two) = Min(2, Len(Stored(s)))
            /\ r.out = ExpectedContext(two)
            /\ r.out = get_context(db, obj[s], u, 2, FALSE).out
            /\ \A k \in 3 .. Len(Stored(s)) :
                  r.out # ExpectedContext(two) \o ContextBlock(Hit(Embed(u), Stored(s)[k]))

\* C21 witness: get_context has just returned two blocks from a store that
\* holds three turns
C21_Witness ==
    /\ last.op = "get_context"
    /\ last.err = OK
    /\ \E s \in Stores, u \in ChatInputs :
          /\ Live(s)
          /\ Len(Stored(s)) = 3
          /\ last.arg = ExpectedContext(query_db(db, obj[s], u, 2, FALSE).out)

\* C23: get_all and query are read-only: a step that is a get_all or a query,
\* successful or failed, leaves the stored turns, the id counters and the
\* live/destroyed state of every store as they were, so every other operation
\* gives the same result after it as before it
C23_ReadsChangeNothing ==
    [][last'.op \in {"get_all", "query"} =>
          /\ db' = db
          /\ obj' = obj
          /\ added' = added
          /\ destroyed' = destroyed
          /\ \A s \in Stores :
                /\ (obj'[s] # NoObj /\ HandleValid(db', obj'[s])) = Live(s)
                /\ obj[s] # NoObj =>
                      /\ get_all_entries(db', obj'[s], FALSE)
                            = get_all_entries(db, obj[s], FALSE)
                      /\ \A t \in Turns :
                            add_conversation_to_db(db', obj'[s], t[1], t[2], FALSE)
                               = add_conversation_to_db(db, obj[s], t[1], t[2], FALSE)
                      /\ \A q \in QueryTexts :
                            query_db(db', obj'[s], q, MaxN, FALSE)
                               = query_db(db, obj[s], q, MaxN, FALSE)
                      /\ \A reinitialize \in BOOLEAN, failAt \in {"none", "delete", "create"} :
                            clear_db(db', obj', s, reinitialize, failAt)
                               = clear_db(db, obj, s, reinitialize, failAt)]_vars

\* C23 witness: a query has just failed, and a get_all would succeed, on a live
\* store that holds turns
C23_Witness ==
    /\ last.op = "query"
    /\ last.err = ConnectionFailure
    /\ \E s \in Stores :
          /\ Live(s)
          /\ obj[s].id_counter > 0
          /\ Len(Stored(s)) = obj[s].id_counter
          /\ get_all_entries(db, obj[s], FALSE).err = OK

\* C24: when clear_db(reinitialize=True) deletes the collection and the
\* create_collection of __init__ then fails, the error reaches the caller, the
\* collection stays deleted, the object keeps the handle of the deleted
\* collection (so its add and get_all fail) and its id counter keeps the value
\* it had before the clear instead of zero
C24_FailedRecreationLeavesObjectDestroyed ==
    [][\A s \in Stores :
          (/\ obj[s] # NoObj
           /\ clear_db(db, obj, s, TRUE, "create").deleted
           /\ Clear(s, TRUE, "create"))
          => /\ last' = Outcome("clear", ConnectionFailure, TRUE)
             /\ calls' = <<Call("delete_collection", OK),
                           Call("create_collection", ConnectionFailure)>>
             /\ db'[obj[s].name] = NoColl
             /\ obj'[s] # NoObj
             /\ obj'[s].name = obj[s].name
             /\ ~obj'[s].attached
             /\ ~HandleValid(db', obj'[s])
             /\ obj'[s].id_counter = obj[s].id_counter
             /\ get_all_entries(db', obj'[s], FALSE).err = NotFound
             /\ \A t \in Turns :
                   add_conversation_to_db(db', obj'[s], t[1], t[2], FALSE).err = NotFound]_vars

\* C24 witness: a clear(reinitialize=True) has just deleted the collection and
\* failed to re-create it, leaving an object with a counter above zero on a
\* deleted collection
C24_Witness ==
    /\ last = Outcome("clear", ConnectionFailure, TRUE)
    /\ calls = <<Call("delete_collection", OK),
                 Call("create_collection", ConnectionFailure)>>
    /\ \E s \in Stores :
          /\ obj[s] # NoObj
          /\ ~Live(s)
          /\ db[obj[s].name] = NoColl
          /\ obj[s].id_counter > 0

\* C22: chat_with_db(user_input, chat_db=X) takes its context from the default
\* global store and adds the new turn to X: the context it used is the one the
\* default store gives, the turn is appended to the collection of X, and when X
\* is another store than the default one the store that was read is not the
\* one written and stays as it was
C22_ChatReadsDefaultStoreWritesX ==
    [][\A X \in Stores, u \in ChatInputs, r \in Responses :
          (/\ obj[chat_db] # NoObj
           /\ obj[X] # NoObj
           /\ chat_with_db(db, obj, u, X, r, "none").err = OK
           /\ Chat(X, u, r, "none"))
          => /\ calls' = <<Call("query", OK), Call("completion", OK), Call("add", OK)>>
             /\ last'.arg = get_context(db, obj[chat_db], u, 2, FALSE).out
             /\ last'.arg = ExpectedContext(query_db(db, obj[chat_db], u, 2, FALSE).out)
             /\ db'[obj[X].name].recs
                   = Append(db[obj[X].name].recs, RecordOf(obj[X].id_counter, u, r))
             /\ X # chat_db =>
                   /\ obj[X].name # obj[chat_db].name
                   /\ db'[obj[chat_db].name] = db[obj[chat_db].name]
                   /\ obj'[chat_db] = obj[chat_db]]_vars

\* C22 witness: a chat has just added its turn to a second store that held
\* nothing before, while the context it used came from the default store, which
\* holds turns and did not receive the new one
C22_Witness ==
    /\ last.op = "chat"
    /\ last.err = OK
    /\ Live("s1") /\ Live("s2")
    /\ chat_db = "s1"
    /\ Len(Stored("s2")) = 1
    /\ Len(Stored("s1")) = 2
    /\ \E u \in ChatInputs :
          /\ Stored("s2")[1].metadata.user_message = u
          /\ last.arg = ExpectedContext(query_db(db, obj["s1"], u, 2, FALSE).out)
          /\ last.arg # "No relevant chat history found."

====
